---------------------------- MODULE Spec2Model ----------------------------
(***************************************************************************)
(* Model of the tamesuke provisioning saga (src/provisioner.py) and of    *)
(* the service layer that calls it (src/api/services, src/api/routes).    *)
(*                                                                         *)
(* The external platforms (compute platform, tunnel broker, DNS zone,     *)
(* artifact store) are modelled as sets of resources.  Every external     *)
(* call is one atomic step that either takes effect and returns, or       *)
(* raises without effect.  The platforms do not enforce uniqueness of     *)
(* tunnel or DNS names; the compute platform refuses to clone onto an     *)
(* identifier that is in use.                                              *)
(***************************************************************************)
EXTENDS Integers, Sequences, FiniteSets, TLC

(***************************************************************************)
(* Bounds of the model.                                                    *)
(***************************************************************************)
MaxProvisions == 2      \* provision() calls per behaviour of Spec
MaxSeqProvisions == 1   \* provision() calls per behaviour of SpecSeq
MaxLen == 2             \* length of the enumerated short names
MaxPad == 2             \* names are padded to LenLimit - MaxPad .. LenLimit + MaxPad

(***************************************************************************)
(* Program constants.                                                      *)
(***************************************************************************)
LenLimit == 12          \* _validate_subdomain: len(subdomain) > 12
VmidLo == 9000          \* _get_next_vmid: range(9000, 10000)
VmidHi == 10000

Workers == {1, 2}       \* threads of the default executor running provision()

(***************************************************************************)
(* Names are sequences of characters.                                      *)
(***************************************************************************)
Lower == {"a","b","c","d","e","f","g","h","i","j","k","l","m",
          "n","o","p","q","r","s","t","u","v","w","x","y","z"}
Digit == {"0","1","2","3","4","5","6","7","8","9"}
Charset == Lower \cup Digit \cup {"-"}          \* the class [a-z0-9-]

\* re.match(r'^[a-z0-9-]+$', s): one or more characters of the class from the
\* start, then '$', which matches at the end of the string and also just
\* before a newline that is the last character of the string.
RegexMatch(s) ==
    LET n == Len(s) IN
    /\ n >= 1
    /\ \/ \A i \in 1..n : s[i] \in Charset
       \/ /\ n >= 2
          /\ s[n] = "\n"
          /\ \A i \in 1..(n-1) : s[i] \in Charset

StartsWith(s, c) == Len(s) >= 1 /\ s[1] = c
EndsWith(s, c) == Len(s) >= 1 /\ s[Len(s)] = c

\* A mutant of the validator: the length test is >= instead of >.
ValidateSubdomainLenGe(s) ==
    IF Len(s) >= LenLimit THEN "too_long"
    ELSE IF ~RegexMatch(s) THEN "charset"
    ELSE IF StartsWith(s, "-") \/ EndsWith(s, "-") THEN "hyphen_edge"
    ELSE "ok"

\* TamesukeProvisioner._validate_subdomain: "ok" when it returns, else the
\* check that raised ValueError.
ValidateSubdomain(s) ==
    IF Len(s) > LenLimit THEN "too_long"
    ELSE IF ~RegexMatch(s) THEN "charset"
    ELSE IF StartsWith(s, "-") \/ EndsWith(s, "-") THEN "hyphen_edge"
    ELSE "ok"

RouteLenLimit == 12     \* routes/subdomain.py: len(subdomain) > 12

\* A mutant of the validator of the routes: the hyphen test is missing.
RouteValidateSubdomainNoHyphenTest(s) ==
    IF Len(s) > RouteLenLimit THEN "400"
    ELSE IF ~RegexMatch(s) THEN "400"
    ELSE "ok"

\* routes/subdomain.py _validate_subdomain: "ok" when it returns, "400" when
\* it raises HTTPException(status_code=400)
RouteValidateSubdomain(s) ==
    IF Len(s) > RouteLenLimit THEN "400"
    ELSE IF ~RegexMatch(s) THEN "400"
    ELSE IF StartsWith(s, "-") \/ EndsWith(s, "-") THEN "400"
    ELSE "ok"

(***************************************************************************)
(* The identifier allocator.                                               *)
(***************************************************************************)
NoVmid == 0   \* stands for the raised exhaustion exception

\* A mutant of the allocator: the scan starts one past the start of the range.
GetNextVmidSkipFirst(used) ==
    LET free == { v \in (VmidLo + 1)..(VmidHi - 1) : v \notin used } IN
    IF free = {} THEN NoVmid
    ELSE CHOOSE v \in free : \A u \in free : v <= u

\* TamesukeProvisioner._get_next_vmid, given the identifiers the inventory
\* listing returned: the first value of range(9000, 10000) not among them.
GetNextVmid(used) ==
    LET free == { v \in VmidLo..(VmidHi - 1) : v \notin used } IN
    IF free = {} THEN NoVmid
    ELSE CHOOSE v \in free : \A u \in free : v <= u

(***************************************************************************)
(* The provisioning saga.                                                  *)
(***************************************************************************)
VARIABLES
    tunnels,      \* tunnel broker: records [id, name]
    dnsRecords,   \* DNS zone: records [id, name]
    metadata,     \* artifact store: records [vmid, owner], one per path
    instances,    \* compute platform: records [vmid, owner, running]
    connected,    \* the provisioner holds its API handles (self.proxmox, self.cf)
    started,      \* number of provision requests issued so far
    threads,      \* the executor threads that run provision()
    saga,         \* per thread: the locals of its provision() call
    raceTunnel,   \* two _create_tunnel calls for one name have overlapped
    raceDns,      \* two _create_dns_record calls for one name have overlapped
    vName,        \* the name handed to the validator
    vResult,      \* what the validator did with it
    vRoute,       \* what the validator of the HTTP routes did with it
    aUsed,        \* the identifiers the inventory listing returns
    aResult,      \* <<v>> once the allocator has returned v for them
    wt,           \* the locals of a _wait_for_ready call and the clock
    hk,           \* the webhook endpoint and its background task
    co            \* the checkout endpoint

world == <<tunnels, dnsRecords, metadata, instances>>
harness == <<vName, vResult, vRoute, aUsed, aResult, wt, hk, co>>
vars == <<tunnels, dnsRecords, metadata, instances, connected, started,
          threads, saga, raceTunnel, raceDns, vName, vResult, vRoute, aUsed, aResult,
          wt, hk, co>>

NameA == <<"a">>
NameB == <<"b", "7">>
NameBad == <<"-", "a">>
RequestNames == {NameA, NameB, NameBad}
OssTypes == {"nginx", "growi"}

template_map == {"nginx"}                  \* keys of self.template_map
port_map == {"nginx", "growi", "snipeit"}  \* keys of self.port_map

\* f"service-{vmid}-{subdomain}"
TunnelName(vmid, subdomain) == <<"service", vmid, subdomain>>
\* A mutant of the name the DNS pre-clean lists by: the relative name.
FqdnRelative(subdomain) == <<subdomain>>

\* f"{subdomain}.{self.domain}"
Fqdn(subdomain) == <<subdomain, "domain">>
\* the zone stores a record created under the relative name `subdomain`
\* under its fully-qualified name
ZoneName(subdomain) == <<subdomain, "domain">>

\* f"https://{subdomain}.{self.domain}"
Url(subdomain) == <<"https", subdomain, "domain">>

\* provision() has not returned a result
NoResult == [status |-> "none"]

NoError == [kind |-> "none", step |-> 0]
Err(kind, k) == [kind |-> kind, step |-> k]

\* The locals of a provision() call that has not been made.  Besides the
\* locals of the code a record keeps what an observer of the run notes down:
\* failedStep and error (the step that raised and what it raised), raised (what
\* the caller of provision() observes), rbLog (the calls _rollback made),
\* created (the kinds of resource the run created), touched (the run has made
\* an external call), before (the identifiers that existed under the target
\* name when the last createOrReplace listed), result (the dict provision()
\* returned).
IdleSaga ==
    [ pc |-> "idle", id |-> 0, subdomain |-> <<>>, oss_type |-> "none",
      vmid |-> NoVmid, created_resources |-> <<>>, existing |-> {},
      failedStep |-> 0, error |-> NoError, raised |-> NoError,
      rbLog |-> <<>>, created |-> {}, touched |-> FALSE, before |-> {},
      result |-> NoResult ]

Keys(resources) == { resources[i][1] : i \in 1..Len(resources) }
Value(resources, key) ==
    LET i == CHOOSE j \in 1..Len(resources) : resources[j][1] = key
    IN resources[i][2]

Terminal == {"idle", "returned", "raised"}

(***************************************************************************)
(* _rollback: the compensations, in the order the code tests the ledger.   *)
(***************************************************************************)
RbSteps == <<"rb_stop", "rb_delete", "rb_meta", "rb_dns", "rb_tunnel">>

\* A mutant of the ledger tests of _rollback: the DNS record is never found.
ApplicableNoDns(p, resources) ==
    CASE p \in {"rb_stop", "rb_delete"} -> "vmid" \in Keys(resources)
      [] p = "rb_meta" -> /\ "metadata_uploaded" \in Keys(resources)
                          /\ "vmid" \in Keys(resources)
      [] p = "rb_dns" -> "dns_record" \in Keys(resources)
      [] p = "rb_tunnel" -> "tunnel_id" \in Keys(resources)

\* the `if ... in resources` tests of _rollback
Applicable(p, resources) ==
    CASE p \in {"rb_stop", "rb_delete"} -> "vmid" \in Keys(resources)
      [] p = "rb_meta" -> /\ "metadata_uploaded" \in Keys(resources)
                          /\ "vmid" \in Keys(resources)
      [] p = "rb_dns" -> "dns_record_id" \in Keys(resources)
      [] p = "rb_tunnel" -> "tunnel_id" \in Keys(resources)

\* the compensation _rollback attempts after its i-th, "raised" when none is left
NextRollback(resources, i) ==
    LET later == { j \in (i+1)..Len(RbSteps) : Applicable(RbSteps[j], resources) }
    IN IF later = {} THEN "raised"
       ELSE RbSteps[CHOOSE j \in later : \A k \in later : j <= k]

\* A mutant of the guards of _rollback: a failing compensation is not caught,
\* so it leaves _rollback and replaces the error being handled.
AfterCompensationUncaught(s, i, op, target, ok) ==
    LET logged == [s EXCEPT !.rbLog = Append(@, [op |-> op, id |-> target, ok |-> ok])]
        nxt == NextRollback(s.created_resources, i)
    IN IF ~ok
       THEN [logged EXCEPT !.pc = "raised", !.raised = Err("CompensationError", 0)]
       ELSE [logged EXCEPT !.pc = nxt,
                           !.raised = IF nxt = "raised" THEN s.error ELSE @]

\* A mutant of the inner guard of _rollback: a failing stop is not swallowed,
\* it is caught by the outer guard, which skips the delete of the instance.
AfterCompensationStopSkipsDelete(s, i, op, target, ok) ==
    LET logged == [s EXCEPT !.rbLog = Append(@, [op |-> op, id |-> target, ok |-> ok])]
        nxt == NextRollback(s.created_resources,
                            IF op = "stop_instance" /\ ~ok THEN i + 1 ELSE i)
    IN [logged EXCEPT !.pc = nxt,
                      !.raised = IF nxt = "raised" THEN s.error ELSE @]

\* The locals after the i-th compensation of _rollback has been attempted:
\* its failure is caught and logged, the next compensation follows, and after
\* the last one provision() re-raises the error it caught.
AfterCompensation(s, i, op, target, ok) ==
    LET logged == [s EXCEPT !.rbLog = Append(@, [op |-> op, id |-> target, ok |-> ok])]
        nxt == NextRollback(s.created_resources, i)
    IN [logged EXCEPT !.pc = nxt,
                      !.raised = IF nxt = "raised" THEN s.error ELSE @]

\* A mutant of the except clause of provision(): the first failure of a run
\* is noted and the step that failed is attempted again.
FailRetriesOnce(s, k, kind) ==
    IF s.failedStep = 0
    THEN [s EXCEPT !.failedStep = k]
    ELSE LET f == [s EXCEPT !.failedStep = k, !.error = Err(kind, k), !.existing = {}]
             nxt == NextRollback(f.created_resources, 0)
         IN [f EXCEPT !.pc = nxt,
                      !.raised = IF nxt = "raised" THEN f.error ELSE @]

\* provision(): step k raised; the except clause calls _rollback and re-raises.
Fail(s, k, kind) ==
    LET f == [s EXCEPT !.failedStep = k, !.error = Err(kind, k), !.existing = {}]
        nxt == NextRollback(f.created_resources, 0)
    IN [f EXCEPT !.pc = nxt,
                 !.raised = IF nxt = "raised" THEN f.error ELSE @]

\* an exception raised before the try block of provision(): no rollback
Reject(s, kind) ==
    [s EXCEPT !.pc = "raised", !.error = Err(kind, 0), !.raised = Err(kind, 0)]

(***************************************************************************)
(* createOrReplace: the pre-clean of _create_tunnel and _create_dns_record *)
(***************************************************************************)
\* the platform's list-by-name call
ListByName(records, name) == { r \in records : r.name = name }

\* A mutant of the pre-clean: no listed resource is taken for deletion.
SameNamedNone(listing, name) == {}

\* the listed resources the loop deletes: `if tunnel.name == tunnel_name`,
\* `if record.name == f"{subdomain}.{self.domain}"`
SameNamed(listing, name) == { r \in listing : r.name = name }

ProvisionLimit ==
    IF threads = Workers THEN MaxProvisions ELSE MaxSeqProvisions

InTunnelWindow(u) == saga[u].pc \in {"s2_delete", "s2_create"}
InDnsWindow(u) == saga[u].pc \in {"s5_delete", "s5_create"}

(***************************************************************************)
(* Entry: provision() called directly, or through run_provision().         *)
(***************************************************************************)
NewSaga(name, oss, pc0) ==
    [IdleSaga EXCEPT !.pc = pc0, !.id = started + 1,
                     !.subdomain = name, !.oss_type = oss]

\* provisioner.provision(...) called on the provisioner object
ProvisionDirect(w) ==
    /\ w \in threads
    /\ saga[w].pc \in Terminal
    /\ started < ProvisionLimit
    /\ \E name \in RequestNames, oss \in OssTypes :
         saga' = [saga EXCEPT ![w] = NewSaga(name, oss, "validate")]
    /\ started' = started + 1
    /\ UNCHANGED <<harness, world, connected, threads, raceTunnel, raceDns>>

\* run_provision(...): the provisioner is obtained first
RunProvision(w) ==
    /\ w \in threads
    /\ saga[w].pc \in Terminal
    /\ started < ProvisionLimit
    /\ \E name \in RequestNames, oss \in OssTypes :
         saga' = [saga EXCEPT ![w] = NewSaga(name, oss, "get_provisioner")]
    /\ started' = started + 1
    /\ UNCHANGED <<harness, world, connected, threads, raceTunnel, raceDns>>

\* _get_provisioner(): the cached provisioner, or a new one that connect()s
GetProvisioner(w) ==
    /\ saga[w].pc = "get_provisioner"
    /\ IF connected
       THEN /\ saga' = [saga EXCEPT ![w].pc = "validate"]
            /\ UNCHANGED connected
       ELSE \E ok \in BOOLEAN :
            /\ connected' = ok
            /\ saga' = [saga EXCEPT ![w] =
                 IF ok THEN [@ EXCEPT !.pc = "validate", !.touched = TRUE]
                 ELSE Reject([@ EXCEPT !.touched = TRUE], "ConnectionError")]
    /\ UNCHANGED <<harness, world, started, threads, raceTunnel, raceDns>>

\* provision(): input validation, then the test whether to connect
Validate(w) ==
    LET s == saga[w] IN
    /\ s.pc = "validate"
    /\ saga' = [saga EXCEPT ![w] =
         IF ValidateSubdomain(s.subdomain) # "ok" THEN Reject(s, "ValueError")
         ELSE IF s.oss_type \notin template_map THEN Reject(s, "ValueError")
         ELSE [s EXCEPT !.pc = IF connected THEN "s1" ELSE "connect"]]
    /\ UNCHANGED <<harness, world, connected, started, threads, raceTunnel, raceDns>>

\* provision(): self.connect()
Connect(w) ==
    /\ saga[w].pc = "connect"
    /\ \E ok \in BOOLEAN :
         /\ connected' = (connected \/ ok)
         /\ saga' = [saga EXCEPT ![w] =
              IF ok THEN [@ EXCEPT !.pc = "s1", !.touched = TRUE]
              ELSE Reject([@ EXCEPT !.touched = TRUE], "ConnectionError")]
    /\ UNCHANGED <<harness, world, started, threads, raceTunnel, raceDns>>

(***************************************************************************)
(* The ten steps.                                                          *)
(***************************************************************************)
\* the identifiers held by the runs in flight
HeldIds == { saga[u].vmid : u \in { x \in Workers :
                 saga[x].pc \notin {"idle", "returned", "raised"}
                 /\ saga[x].vmid # NoVmid } }

\* A mutant of step 1: the allocator also skips the identifiers that runs in
\* flight hold, as if an allocation reserved its identifier.
Step1AllocateReserving(w) ==
    LET s == saga[w]
        vmid == GetNextVmid({ i.vmid : i \in instances } \cup HeldIds)
    IN
    /\ s.pc = "s1"
    /\ \E ok \in BOOLEAN :
         saga' = [saga EXCEPT ![w] =
           IF ~ok THEN Fail([s EXCEPT !.touched = TRUE], 1, "RemoteCallError")
           ELSE IF vmid = NoVmid
                THEN Fail([s EXCEPT !.touched = TRUE], 1, "ExhaustionError")
           ELSE [s EXCEPT !.touched = TRUE, !.vmid = vmid, !.pc = "s2_list"]]
    /\ UNCHANGED <<harness, world, connected, started, threads, raceTunnel, raceDns>>

\* Step 1: _get_next_vmid()
Step1Allocate(w) ==
    LET s == saga[w]
        vmid == GetNextVmid({ i.vmid : i \in instances })
    IN
    /\ s.pc = "s1"
    /\ \E ok \in BOOLEAN :
         saga' = [saga EXCEPT ![w] =
           IF ~ok THEN Fail([s EXCEPT !.touched = TRUE], 1, "RemoteCallError")
           ELSE IF vmid = NoVmid
                THEN Fail([s EXCEPT !.touched = TRUE], 1, "ExhaustionError")
           ELSE [s EXCEPT !.touched = TRUE, !.vmid = vmid, !.pc = "s2_list"]]
    /\ UNCHANGED <<harness, world, connected, started, threads, raceTunnel, raceDns>>

\* Step 2, _create_tunnel: list the tunnels named tunnel_name
Step2List(w) ==
    LET s == saga[w]
        name == TunnelName(s.vmid, s.subdomain)
        found == SameNamed(ListByName(tunnels, name), name)
    IN
    /\ s.pc = "s2_list"
    /\ \E ok \in BOOLEAN :
         /\ saga' = [saga EXCEPT ![w] =
              IF ~ok THEN Fail(s, 2, "RemoteCallError")
              ELSE [s EXCEPT !.existing = { t.id : t \in found },
                             !.before = { t.id : t \in { x \in tunnels : x.name = name } },
                             !.pc = IF found = {} THEN "s2_create" ELSE "s2_delete"]]
         /\ raceTunnel' = (raceTunnel \/
              (ok /\ \E u \in Workers \ {w} :
                       /\ InTunnelWindow(u)
                       /\ TunnelName(saga[u].vmid, saga[u].subdomain) = name))
    /\ UNCHANGED <<harness, world, connected, started, threads, raceDns>>

\* Step 2, _create_tunnel: delete one listed tunnel; the platform answers
\* "not found" for a tunnel that is gone, and the call is in no try block
Step2Delete(w) ==
    LET s == saga[w] IN
    /\ s.pc = "s2_delete"
    /\ \E id \in s.existing, ok \in BOOLEAN :
         LET done == ok /\ \E t \in tunnels : t.id = id
             rest == s.existing \ {id}
         IN
         /\ tunnels' = IF done THEN { t \in tunnels : t.id # id } ELSE tunnels
         /\ saga' = [saga EXCEPT ![w] =
              IF ~done
              THEN Fail(s, 2, IF ok THEN "NotFoundError" ELSE "RemoteCallError")
              ELSE [s EXCEPT !.existing = rest,
                             !.pc = IF rest = {} THEN "s2_create" ELSE "s2_delete"]]
    /\ UNCHANGED <<harness, dnsRecords, metadata, instances, connected, started, threads,
                   raceTunnel, raceDns>>

\* Step 2, _create_tunnel: create the tunnel; provision() registers its id
Step2Create(w) ==
    LET s == saga[w] IN
    /\ s.pc = "s2_create"
    /\ \E ok \in BOOLEAN :
         /\ tunnels' = IF ok
              THEN tunnels \cup {[id |-> s.id, name |-> TunnelName(s.vmid, s.subdomain)]}
              ELSE tunnels
         /\ saga' = [saga EXCEPT ![w] =
              IF ~ok THEN Fail(s, 2, "RemoteCallError")
              ELSE [s EXCEPT !.created_resources = Append(@, <<"tunnel_id", s.id>>),
                             !.created = @ \cup {"tunnel"},
                             !.pc = "s3"]]
    /\ UNCHANGED <<harness, dnsRecords, metadata, instances, connected, started, threads,
                   raceTunnel, raceDns>>

\* A mutant of step 3: once the token is fetched the run goes on to the DNS
\* record, the routing of step 4 is left out.
Step3TokenSkipsRouting(w) ==
    LET s == saga[w] IN
    /\ s.pc = "s3"
    /\ \E ok \in BOOLEAN :
         saga' = [saga EXCEPT ![w] =
           IF ok /\ \E t \in tunnels : t.id = s.id
           THEN [s EXCEPT !.pc = "s5_list"]
           ELSE Fail(s, 3, "RemoteCallError")]
    /\ UNCHANGED <<harness, world, connected, started, threads, raceTunnel, raceDns>>

\* Step 3: _get_tunnel_token(tunnel)
Step3Token(w) ==
    LET s == saga[w] IN
    /\ s.pc = "s3"
    /\ \E ok \in BOOLEAN :
         saga' = [saga EXCEPT ![w] =
           IF ok /\ \E t \in tunnels : t.id = s.id
           THEN [s EXCEPT !.pc = "s4"]
           ELSE Fail(s, 3, "RemoteCallError")]
    /\ UNCHANGED <<harness, world, connected, started, threads, raceTunnel, raceDns>>

\* Step 4: _configure_tunnel(tunnel_id, subdomain, oss_type)
Step4Configure(w) ==
    LET s == saga[w] IN
    /\ s.pc = "s4"
    /\ \E ok \in BOOLEAN :
         saga' = [saga EXCEPT ![w] =
           IF ok /\ s.oss_type \in port_map /\ \E t \in tunnels : t.id = s.id
           THEN [s EXCEPT !.pc = "s5_list"]
           ELSE Fail(s, 4, "RemoteCallError")]
    /\ UNCHANGED <<harness, world, connected, started, threads, raceTunnel, raceDns>>

\* Step 5, _create_dns_record: list the records named subdomain.domain
Step5List(w) ==
    LET s == saga[w]
        name == Fqdn(s.subdomain)
        found == SameNamed(ListByName(dnsRecords, name), name)
    IN
    /\ s.pc = "s5_list"
    /\ \E ok \in BOOLEAN :
         /\ saga' = [saga EXCEPT ![w] =
              IF ~ok THEN Fail(s, 5, "RemoteCallError")
              ELSE [s EXCEPT !.existing = { r.id : r \in found },
                             !.before = { r.id : r \in { x \in dnsRecords : x.name = name } },
                             !.pc = IF found = {} THEN "s5_create" ELSE "s5_delete"]]
         /\ raceDns' = (raceDns \/
              (ok /\ \E u \in Workers \ {w} :
                       InDnsWindow(u) /\ Fqdn(saga[u].subdomain) = name))
    /\ UNCHANGED <<harness, world, connected, started, threads, raceTunnel>>

\* Step 5, _create_dns_record: delete one listed record; the platform answers
\* "not found" for a record that is gone, and the call is in no try block
Step5Delete(w) ==
    LET s == saga[w] IN
    /\ s.pc = "s5_delete"
    /\ \E id \in s.existing, ok \in BOOLEAN :
         LET done == ok /\ \E r \in dnsRecords : r.id = id
             rest == s.existing \ {id}
         IN
         /\ dnsRecords' = IF done THEN { r \in dnsRecords : r.id # id } ELSE dnsRecords
         /\ saga' = [saga EXCEPT ![w] =
              IF ~done
              THEN Fail(s, 5, IF ok THEN "NotFoundError" ELSE "RemoteCallError")
              ELSE [s EXCEPT !.existing = rest,
                             !.pc = IF rest = {} THEN "s5_create" ELSE "s5_delete"]]
    /\ UNCHANGED <<harness, tunnels, metadata, instances, connected, started, threads,
                   raceTunnel, raceDns>>

\* Step 5, _create_dns_record: create the record; provision() registers its id
Step5Create(w) ==
    LET s == saga[w] IN
    /\ s.pc = "s5_create"
    /\ \E ok \in BOOLEAN :
         /\ dnsRecords' = IF ok
              THEN dnsRecords \cup {[id |-> s.id, name |-> ZoneName(s.subdomain)]}
              ELSE dnsRecords
         /\ saga' = [saga EXCEPT ![w] =
              IF ~ok THEN Fail(s, 5, "RemoteCallError")
              ELSE [s EXCEPT !.created_resources = Append(@, <<"dns_record_id", s.id>>),
                             !.created = @ \cup {"dns"},
                             !.pc = "s7"]]
    /\ UNCHANGED <<harness, tunnels, metadata, instances, connected, started, threads,
                   raceTunnel, raceDns>>

\* Steps 6 and 7: _create_metadata (local, cannot fail), then _upload_metadata;
\* provision() registers 'vmid' and 'metadata_uploaded'
Step7Upload(w) ==
    LET s == saga[w] IN
    /\ s.pc = "s7"
    /\ \E ok \in BOOLEAN :
         /\ metadata' = IF ok
              THEN { m \in metadata : m.vmid # s.vmid }
                   \cup {[vmid |-> s.vmid, owner |-> s.id]}
              ELSE metadata
         /\ saga' = [saga EXCEPT ![w] =
              IF ~ok THEN Fail(s, 7, "UploadError")
              ELSE [s EXCEPT !.created_resources =
                                 @ \o << <<"vmid", s.vmid>>, <<"metadata_uploaded", TRUE>> >>,
                             !.created = @ \cup {"metadata"},
                             !.pc = "s8"]]
    /\ UNCHANGED <<harness, tunnels, dnsRecords, instances, connected, started, threads,
                   raceTunnel, raceDns>>

\* Step 8: _clone_lxc(vmid, oss_type, subdomain)
Step8Clone(w) ==
    LET s == saga[w] IN
    /\ s.pc = "s8"
    /\ \E ok \in BOOLEAN :
         LET done == ok /\ ~ \E i \in instances : i.vmid = s.vmid IN
         /\ instances' = IF done
              THEN instances \cup {[vmid |-> s.vmid, owner |-> s.id, running |-> FALSE]}
              ELSE instances
         /\ saga' = [saga EXCEPT ![w] =
              IF ~done THEN Fail(s, 8, "RemoteCallError")
              ELSE [s EXCEPT !.created = @ \cup {"instance"}, !.pc = "s9"]]
    /\ UNCHANGED <<harness, tunnels, dnsRecords, metadata, connected, started, threads,
                   raceTunnel, raceDns>>

\* Step 9: _start_lxc(vmid)
Step9Start(w) ==
    LET s == saga[w] IN
    /\ s.pc = "s9"
    /\ \E ok \in BOOLEAN :
         LET done == ok /\ \E i \in instances : i.vmid = s.vmid /\ ~i.running IN
         /\ instances' = IF done
              THEN { IF i.vmid = s.vmid THEN [i EXCEPT !.running = TRUE] ELSE i :
                     i \in instances }
              ELSE instances
         /\ saga' = [saga EXCEPT ![w] =
              IF ~done THEN Fail(s, 9, "RemoteCallError")
              ELSE [s EXCEPT !.pc = "s10"]]
    /\ UNCHANGED <<harness, tunnels, dnsRecords, metadata, connected, started, threads,
                   raceTunnel, raceDns>>

\* Step 10: _wait_for_ready(url, timeout=300) returns and provision() returns
\* its result, or the wait raises on timeout
Step10Wait(w) ==
    LET s == saga[w] IN
    /\ s.pc = "s10"
    /\ \E ready \in BOOLEAN :
         saga' = [saga EXCEPT ![w] =
           IF ready
           THEN [s EXCEPT !.pc = "returned",
                          !.result = [vmid |-> s.vmid,
                                      tunnel_id |-> Value(s.created_resources, "tunnel_id"),
                                      url |-> Url(s.subdomain),
                                      status |-> "active"]]
           ELSE Fail(s, 10, "TimeoutError")]
    /\ UNCHANGED <<harness, world, connected, started, threads, raceTunnel, raceDns>>

(***************************************************************************)
(* _rollback: one action per external call.                                *)
(***************************************************************************)
\* self.proxmox.nodes(self.node).lxc(vmid).status.stop.post()
RbStop(w) ==
    LET s == saga[w]
        vmid == Value(s.created_resources, "vmid")
    IN
    /\ s.pc = "rb_stop"
    /\ \E ok \in BOOLEAN :
         LET done == ok /\ \E i \in instances : i.vmid = vmid /\ i.running IN
         /\ instances' = IF done
              THEN { IF i.vmid = vmid THEN [i EXCEPT !.running = FALSE] ELSE i :
                     i \in instances }
              ELSE instances
         /\ saga' = [saga EXCEPT ![w] =
                       AfterCompensation(s, 1, "stop_instance", vmid, done)]
    /\ UNCHANGED <<harness, tunnels, dnsRecords, metadata, connected, started, threads,
                   raceTunnel, raceDns>>

\* self.proxmox.nodes(self.node).lxc(vmid).delete()
RbDelete(w) ==
    LET s == saga[w]
        vmid == Value(s.created_resources, "vmid")
    IN
    /\ s.pc = "rb_delete"
    /\ \E ok \in BOOLEAN :
         LET done == ok /\ \E i \in instances : i.vmid = vmid /\ ~i.running IN
         /\ instances' = IF done THEN { i \in instances : i.vmid # vmid }
                         ELSE instances
         /\ saga' = [saga EXCEPT ![w] =
                       AfterCompensation(s, 2, "delete_instance", vmid, done)]
    /\ UNCHANGED <<harness, tunnels, dnsRecords, metadata, connected, started, threads,
                   raceTunnel, raceDns>>

\* requests.delete(.../upload/metadata-{vmid}.json)
RbMeta(w) ==
    LET s == saga[w]
        vmid == Value(s.created_resources, "vmid")
    IN
    /\ s.pc = "rb_meta"
    /\ \E ok \in BOOLEAN :
         /\ metadata' = IF ok THEN { m \in metadata : m.vmid # vmid } ELSE metadata
         /\ saga' = [saga EXCEPT ![w] =
                       AfterCompensation(s, 3, "delete_metadata", vmid, ok)]
    /\ UNCHANGED <<harness, tunnels, dnsRecords, instances, connected, started, threads,
                   raceTunnel, raceDns>>

\* self.cf.dns.records.delete(resources['dns_record_id'], ...)
RbDns(w) ==
    LET s == saga[w]
        id == Value(s.created_resources, "dns_record_id")
    IN
    /\ s.pc = "rb_dns"
    /\ \E ok \in BOOLEAN :
         LET done == ok /\ \E r \in dnsRecords : r.id = id IN
         /\ dnsRecords' = IF done THEN { r \in dnsRecords : r.id # id } ELSE dnsRecords
         /\ saga' = [saga EXCEPT ![w] =
                       AfterCompensation(s, 4, "delete_dns", id, done)]
    /\ UNCHANGED <<harness, tunnels, metadata, instances, connected, started, threads,
                   raceTunnel, raceDns>>

\* self.cf.zero_trust.tunnels.cloudflared.delete(resources['tunnel_id'], ...)
RbTunnel(w) ==
    LET s == saga[w]
        id == Value(s.created_resources, "tunnel_id")
    IN
    /\ s.pc = "rb_tunnel"
    /\ \E ok \in BOOLEAN :
         LET done == ok /\ \E t \in tunnels : t.id = id IN
         /\ tunnels' = IF done THEN { t \in tunnels : t.id # id } ELSE tunnels
         /\ saga' = [saga EXCEPT ![w] =
                       AfterCompensation(s, 5, "delete_tunnel", id, done)]
    /\ UNCHANGED <<harness, dnsRecords, metadata, instances, connected, started, threads,
                   raceTunnel, raceDns>>

(***************************************************************************)
(* Specifications of the saga.                                             *)
(***************************************************************************)
\* a step of a provision() call made through run_provision(): the provisioner
\* it is called on has connected
SagaRun(w) ==
    \/ GetProvisioner(w)
    \/ Validate(w)
    \/ Step1Allocate(w)
    \/ Step2List(w) \/ Step2Delete(w) \/ Step2Create(w)
    \/ Step3Token(w) \/ Step4Configure(w)
    \/ Step5List(w) \/ Step5Delete(w) \/ Step5Create(w)
    \/ Step7Upload(w) \/ Step8Clone(w) \/ Step9Start(w) \/ Step10Wait(w)
    \/ RbStop(w) \/ RbDelete(w) \/ RbMeta(w) \/ RbDns(w) \/ RbTunnel(w)

SagaStep(w) ==
    ProvisionDirect(w) \/ RunProvision(w) \/ Connect(w) \/ SagaRun(w)

Next == \E w \in Workers : SagaStep(w)

Pending == "pending"

\* no _wait_for_ready call, no webhook request and no checkout request yet
IdleWaiter == [pc |-> "idle"]
\* Python's None, and what `not x` tests
None == <<>>
Truthy(x) == x # None

\* the fields the handlers read from the event object; a field the event
\* does not carry is None
NoData == [subdomain |-> None, oss_type |-> "none", subscription |-> None,
           vmid |-> None, tunnel_id |-> None, customer |-> None]

\* No request has reached the webhook endpoint.  events counts the requests,
\* verified/type/data describe the last one, response is what it was
\* answered, task the background task registered for it; log lists what
\* that task has done, error what it raised; cleanup and cleanupLog follow
\* the run_cleanup call; subscription is the metadata stored on the
\* subscription, emails the emails handed to the mail service.
IdleHook ==
    [ pc |-> "idle", events |-> 0, verified |-> FALSE, type |-> "none",
      data |-> NoData, response |-> "none", task |-> "none",
      log |-> <<>>, error |-> "none", cleanup |-> "none", cleanupLog |-> <<>>,
      subscription |-> None, emails |-> <<>> ]
\* No request has reached the checkout endpoint.  requests counts them,
\* subdomain is the one of the last request, status the HTTP status it was
\* answered with, log what the handler has done for it, found the records the
\* zone held under its name when the handler looked, session whether a payment
\* session was created for it, sessions the number of sessions created.
IdleCheckout ==
    [ pc |-> "idle", requests |-> 0, subdomain |-> <<>>, status |-> "none",
      log |-> <<>>, found |-> {}, session |-> FALSE, sessions |-> 0 ]

\* the validator and the allocator harnesses at rest
HarnessIdle ==
    /\ vName = <<>> /\ vResult = Pending /\ vRoute = Pending
    /\ aUsed = {} /\ aResult = <<>>
    /\ wt = IdleWaiter /\ hk = IdleHook /\ co = IdleCheckout

\* no provision() call has been made, the platforms are empty
SagaIdle ==
    /\ tunnels = {} /\ dnsRecords = {} /\ metadata = {} /\ instances = {}
    /\ connected = FALSE
    /\ started = 0
    /\ saga = [w \in Workers |-> IdleSaga]
    /\ raceTunnel = FALSE /\ raceDns = FALSE

\* Two threads, empty platforms.
Init == SagaIdle /\ threads = Workers /\ HarnessIdle

Spec == Init /\ [][Next]_vars

\* Leftovers a platform may hold under the names the first request will use.
PreTunnels == { [id |-> 101, name |-> TunnelName(VmidLo, NameA)],
                [id |-> 102, name |-> TunnelName(VmidLo, NameA)],
                [id |-> 103, name |-> TunnelName(VmidLo, NameB)] }
PreDns == { [id |-> 101, name |-> Fqdn(NameA)],
            [id |-> 102, name |-> Fqdn(NameA)],
            [id |-> 103, name |-> Fqdn(NameB)] }

\* One thread; the platforms hold any leftovers.
InitSeq ==
    /\ tunnels \in SUBSET PreTunnels
    /\ dnsRecords \in SUBSET PreDns
    /\ metadata = {} /\ instances = {}
    /\ connected = FALSE
    /\ started = 0
    /\ threads = {1}
    /\ saga = [w \in Workers |-> IdleSaga]
    /\ raceTunnel = FALSE /\ raceDns = FALSE
    /\ HarnessIdle

SpecSeq == InitSeq /\ [][Next]_vars

(***************************************************************************)
(* The validator on its own: every input of the bounded set is validated.  *)
(***************************************************************************)
Alphabet == {"a", "7", "-", "A", "\n"}

RECURSIVE Repeat(_, _)
Repeat(c, n) == IF n <= 0 THEN <<>> ELSE <<c>> \o Repeat(c, n - 1)

ShortNames == UNION { [1..n -> Alphabet] : n \in 0..MaxLen }

\* s stretched to length n by letters after its first character
Pad(s, n) ==
    IF Len(s) = 0 THEN Repeat("a", n)
    ELSE <<s[1]>> \o Repeat("a", n - Len(s)) \o Tail(s)

ValidatorInputs ==
    ShortNames \cup
    { Pad(s, n) : s \in ShortNames, n \in (LenLimit - MaxPad)..(LenLimit + MaxPad) }

InitValidate ==
    /\ SagaIdle /\ threads = {}
    /\ vName \in ValidatorInputs /\ vResult = Pending /\ vRoute = Pending
    /\ aUsed = {} /\ aResult = <<>>
    /\ wt = IdleWaiter /\ hk = IdleHook /\ co = IdleCheckout

\* provisioner._validate_subdomain(vName)
RunValidate ==
    /\ vResult = Pending
    /\ vResult' = ValidateSubdomain(vName)
    /\ UNCHANGED <<world, connected, started, threads, saga, raceTunnel, raceDns,
                   vName, vRoute, aUsed, aResult, wt, hk, co>>

\* the _validate_subdomain(vName) of routes/subdomain.py
RunRouteValidate ==
    /\ vRoute = Pending
    /\ vRoute' = RouteValidateSubdomain(vName)
    /\ UNCHANGED <<world, connected, started, threads, saga, raceTunnel, raceDns,
                   vName, vResult, aUsed, aResult, wt, hk, co>>

NextValidate == RunValidate \/ RunRouteValidate

SpecValidate == InitValidate /\ [][NextValidate]_vars

(***************************************************************************)
(* The allocator on its own, over inventories that grow.                   *)
(***************************************************************************)
MaxProbe == 3   \* identifiers at each end of the range that are added one by one

VmidRange == VmidLo..(VmidHi - 1)
ProbeIds == ((VmidLo - 1)..(VmidLo + MaxProbe - 1))
            \cup ((VmidHi - MaxProbe)..VmidHi)
BulkIds == VmidRange \ ProbeIds

InitAlloc ==
    /\ SagaIdle /\ threads = {}
    /\ HarnessIdle

\* an instance with identifier v appears on the compute platform
InventoryAdd ==
    /\ \E v \in ProbeIds \ aUsed : aUsed' = aUsed \cup {v}
    /\ aResult' = <<>>
    /\ UNCHANGED <<world, connected, started, threads, saga, raceTunnel, raceDns,
                   vName, vResult, vRoute, wt, hk, co>>

\* the middle of the range fills up
InventoryAddBulk ==
    /\ ~ (BulkIds \subseteq aUsed)
    /\ aUsed' = aUsed \cup BulkIds
    /\ aResult' = <<>>
    /\ UNCHANGED <<world, connected, started, threads, saga, raceTunnel, raceDns,
                   vName, vResult, vRoute, wt, hk, co>>

\* provisioner._get_next_vmid() over the listed identifiers
RunAllocate ==
    /\ aResult = <<>>
    /\ aResult' = <<GetNextVmid(aUsed)>>
    /\ UNCHANGED <<world, connected, started, threads, saga, raceTunnel, raceDns,
                   vName, vResult, vRoute, aUsed, wt, hk, co>>

NextAlloc == InventoryAdd \/ InventoryAddBulk \/ RunAllocate

SpecAlloc == InitAlloc /\ [][NextAlloc]_vars

(***************************************************************************)
(* Observations used by the properties.                                    *)
(***************************************************************************)
Forward == {"s1", "s2_list", "s2_delete", "s2_create", "s3", "s4",
            "s5_list", "s5_delete", "s5_create", "s7", "s8", "s9", "s10"}

\* provision() has raised out of its try block: step failedStep failed
RaisedAfterRollback(w) == saga[w].pc = "raised" /\ saga[w].failedStep >= 1

\* the resource of this kind that the run of thread w created still exists
Exists(w, kind) ==
    LET s == saga[w] IN
    /\ kind \in s.created
    /\ CASE kind = "tunnel" -> \E t \in tunnels : t.id = s.id
         [] kind = "dns" -> \E r \in dnsRecords : r.id = s.id
         [] kind = "metadata" -> [vmid |-> s.vmid, owner |-> s.id] \in metadata
         [] kind = "instance" ->
              \E i \in instances : i.vmid = s.vmid /\ i.owner = s.id

Kinds == {"tunnel", "dns", "metadata", "instance"}

\* the kind of resource a rollback call acts on
OpKind(op) ==
    CASE op \in {"stop_instance", "delete_instance"} -> "instance"
      [] op = "delete_metadata" -> "metadata"
      [] op = "delete_dns" -> "dns"
      [] op = "delete_tunnel" -> "tunnel"

DeleteOp(kind) ==
    CASE kind = "instance" -> "delete_instance"
      [] kind = "metadata" -> "delete_metadata"
      [] kind = "dns" -> "delete_dns"
      [] kind = "tunnel" -> "delete_tunnel"

\* the kinds of resource the calls of a rollback log act on, in order, each
\* run of calls on one resource counted once
RECURSIVE TouchedKinds(_)
TouchedKinds(log) ==
    IF Len(log) = 0 THEN <<>>
    ELSE LET rest == TouchedKinds(Tail(log))
             k == OpKind(Head(log).op)
         IN IF Len(rest) > 0 /\ Head(rest) = k THEN rest ELSE <<k>> \o rest

\* the resources the steps before step k create, in reverse creation order
CreatedBefore(k) ==
    IF k <= 2 THEN <<>>
    ELSE IF k <= 5 THEN <<"tunnel">>
    ELSE IF k <= 7 THEN <<"dns", "tunnel">>
    ELSE IF k = 8 THEN <<"metadata", "dns", "tunnel">>
    ELSE <<"instance", "metadata", "dns", "tunnel">>

(***************************************************************************)
(* C1: if step k of provision() fails, rollback acts on exactly the        *)
(* resources the steps before k created (tunnel by step 2, DNS record by   *)
(* step 5, metadata by step 7, instance by step 8), in reverse creation    *)
(* order, and on no other resource.                                        *)
(***************************************************************************)
C1_RollbackTouchesExactlyCreated ==
    \A w \in Workers :
      RaisedAfterRollback(w) =>
        TouchedKinds(saga[w].rbLog) = CreatedBefore(saga[w].failedStep)

(***************************************************************************)
(* C2: after provision() has raised, no tunnel, DNS record, metadata       *)
(* document or instance created by that run still exists, whichever step   *)
(* failed and whichever compensation failed.                               *)
(***************************************************************************)
C2_NoDanglingResources ==
    \A w \in Workers :
      RaisedAfterRollback(w) => \A kind \in Kinds : ~Exists(w, kind)

\* C2 as amended: after provision() has raised, a resource created by that
\* run still exists only if the rollback call that deletes it failed.
C2_DanglingOnlyIfCompensationFailed ==
    \A w \in Workers :
      RaisedAfterRollback(w) =>
        \A kind \in Kinds :
          Exists(w, kind) =>
            \E i \in 1..Len(saga[w].rbLog) :
              /\ saga[w].rbLog[i].op = DeleteOp(kind)
              /\ ~saga[w].rbLog[i].ok

\* a run that failed at the readiness wait, with all four resources created
\* and all four removed by its rollback
C2_Witness ==
    \E w \in Workers :
      /\ RaisedAfterRollback(w)
      /\ saga[w].failedStep = 10
      /\ saga[w].created = Kinds
      /\ \A kind \in Kinds : ~Exists(w, kind)

(***************************************************************************)
(* C3: at every point of the forward phase of a provision() run the        *)
(* ledger holds an entry for a resource if and only if the run created     *)
(* that resource and it exists; in particular the instance entry ('vmid')  *)
(* is present only once the instance has been cloned.                      *)
(***************************************************************************)
C3_LedgerReflectsResources ==
    \A w \in Workers :
      saga[w].pc \in Forward =>
        LET keys == Keys(saga[w].created_resources) IN
        /\ ("tunnel_id" \in keys) <=> Exists(w, "tunnel")
        /\ ("dns_record_id" \in keys) <=> Exists(w, "dns")
        /\ ("metadata_uploaded" \in keys) <=> Exists(w, "metadata")
        /\ ("vmid" \in keys) <=> Exists(w, "instance")

(***************************************************************************)
(* C4: when a step of provision() fails, the caller observes exactly the   *)
(* error that step raised, after rollback has attempted every compensation *)
(* the ledger calls for; a failing compensation never replaces it.         *)
(***************************************************************************)
C4_OriginalErrorReraised ==
    \A w \in Workers :
      RaisedAfterRollback(w) =>
        /\ saga[w].raised = saga[w].error
        /\ saga[w].raised.step = saga[w].failedStep
        /\ saga[w].raised.kind # "CompensationError"
        /\ \A kind \in Kinds :
             kind \in { OpKind(saga[w].rbLog[i].op) : i \in 1..Len(saga[w].rbLog) }
             <=> CASE kind = "tunnel" -> "tunnel_id" \in Keys(saga[w].created_resources)
                   [] kind = "dns" -> "dns_record_id" \in Keys(saga[w].created_resources)
                   [] kind = "metadata" ->
                        "metadata_uploaded" \in Keys(saga[w].created_resources)
                   [] kind = "instance" -> "vmid" \in Keys(saga[w].created_resources)

\* a run whose rollback saw a compensation fail and still went on to the
\* tunnel, the last one
C4_Witness ==
    \E w \in Workers :
      /\ RaisedAfterRollback(w)
      /\ \E i \in 1..Len(saga[w].rbLog) :
           /\ ~saga[w].rbLog[i].ok
           /\ i < Len(saga[w].rbLog)
      /\ saga[w].raised = saga[w].error

\* the request of thread w fails the input validation of provision()
InvalidRequest(w) ==
    /\ saga[w].id >= 1
    /\ \/ ValidateSubdomain(saga[w].subdomain) # "ok"
       \/ saga[w].oss_type \notin template_map

(***************************************************************************)
(* C5: a request with an invalid name or an unsupported environment kind   *)
(* is rejected with a validation error before any external call is made,   *)
(* for provision() called directly and for run_provision().                *)
(***************************************************************************)
C5_InvalidRejectedBeforeExternalCall ==
    \A w \in Workers :
      InvalidRequest(w) =>
        /\ ~saga[w].touched
        /\ saga[w].created_resources = <<>>
        /\ saga[w].created = {}
        /\ saga[w].rbLog = <<>>
        /\ saga[w].pc = "raised" => saga[w].raised.kind = "ValueError"

\* the three constraints on a requested name
WellFormed(s) ==
    /\ Len(s) <= LenLimit
    /\ \A i \in 1..Len(s) : s[i] \in Charset
    /\ ~StartsWith(s, "-")
    /\ ~EndsWith(s, "-")

(***************************************************************************)
(* C6: every name the validator accepts is at most 12 characters long,     *)
(* consists of characters of [a-z0-9-] only (no upper-case letter, no      *)
(* control character such as a trailing newline) and neither starts nor    *)
(* ends with '-'.                                                          *)
(***************************************************************************)
C6_AcceptedNamesWellFormed ==
    vResult = "ok" => WellFormed(vName)

(***************************************************************************)
(* C7: every name of length at most 12, the empty name included, whose     *)
(* characters are all in [a-z0-9-] and that neither starts nor ends with   *)
(* '-' is accepted.                                                        *)
(***************************************************************************)
C7_WellFormedAccepted ==
    (vResult # Pending /\ WellFormed(vName)) => vResult = "ok"

\* C7 as amended: every non-empty name of length at most 12 whose characters
\* are all in [a-z0-9-] and that neither starts nor ends with '-' is accepted
\* (the empty name is rejected by the character check).
C7_NonEmptyWellFormedAccepted ==
    (vResult # Pending /\ WellFormed(vName) /\ Len(vName) >= 1) => vResult = "ok"

\* a name of exactly 12 characters with a hyphen and a digit inside, accepted
C7_Witness ==
    /\ vResult = "ok"
    /\ Len(vName) = LenLimit
    /\ WellFormed(vName)
    /\ \E i \in 1..Len(vName) : vName[i] = "7"

(***************************************************************************)
(* C8: the allocator returns the smallest identifier of [9000, 10000) that *)
(* is not in use, and raises the exhaustion error exactly when every       *)
(* identifier of the range is in use.                                      *)
(***************************************************************************)
C8_SmallestUnusedOrExhausted ==
    aResult # <<>> =>
      LET v == aResult[1] IN
      IF \A u \in VmidLo..(VmidHi - 1) : u \in aUsed
      THEN v = NoVmid
      ELSE /\ v >= VmidLo /\ v < VmidHi
           /\ v \notin aUsed
           /\ \A u \in VmidLo..(v - 1) : u \in aUsed

\* the whole range is in use and the allocator has raised
C8_Witness ==
    /\ aResult = <<NoVmid>>
    /\ \A u \in VmidLo..(VmidHi - 1) : u \in aUsed

(***************************************************************************)
(* C9: after a successful createOrReplace of a tunnel or of a DNS record,  *)
(* whatever existed under the target name before, exactly one resource     *)
(* with that name exists, every old identifier is gone and the returned    *)
(* identifier is the new one.                                              *)
(***************************************************************************)
C9_CreateOrReplaceLeavesOne ==
    \A w \in Workers :
      LET s == saga[w] IN
      /\ s.pc = "s3" =>
           /\ { t \in tunnels : t.name = TunnelName(s.vmid, s.subdomain) }
                = { [id |-> Value(s.created_resources, "tunnel_id"),
                     name |-> TunnelName(s.vmid, s.subdomain)] }
           /\ \A t \in tunnels : t.id \notin s.before
           /\ Value(s.created_resources, "tunnel_id") \notin s.before
      /\ s.pc = "s7" =>
           /\ { r \in dnsRecords : r.name = Fqdn(s.subdomain) }
                = { [id |-> Value(s.created_resources, "dns_record_id"),
                     name |-> Fqdn(s.subdomain)] }
           /\ \A r \in dnsRecords : r.id \notin s.before
           /\ Value(s.created_resources, "dns_record_id") \notin s.before

\* a DNS record has just been created in place of two records of that name,
\* after the tunnel was created in place of two tunnels of its name
C9_Witness ==
    \E w \in Workers :
      /\ saga[w].pc = "s7"
      /\ Cardinality(saga[w].before) = 2
      /\ saga[w].subdomain = NameA
      /\ ~ \E t \in tunnels : t.id \in {101, 102}
      /\ \E t \in tunnels : t.id = 103

\* no two of the records share a name
OnePerName(records) ==
    \A x \in records, y \in records : x.name = y.name => x = y

(***************************************************************************)
(* C10: in every reachable state of any sequence of provision runs,        *)
(* interleaved ones included, at most one tunnel exists for a tunnel name  *)
(* and at most one DNS record for a public name.                           *)
(***************************************************************************)
C10_AtMostOnePerName ==
    OnePerName(tunnels) /\ OnePerName(dnsRecords)

\* C10 as amended: as long as no two createOrReplace calls for one name have
\* overlapped in time, at most one tunnel exists for a tunnel name and at
\* most one DNS record for a public name.
C10_AtMostOnePerNameWithoutOverlap ==
    /\ ~raceTunnel => OnePerName(tunnels)
    /\ ~raceDns => OnePerName(dnsRecords)

\* a second run has replaced the DNS record and the tunnel a first run left
\* under the same names, with no overlap
C10_Witness ==
    \E w \in Workers :
      /\ ~raceTunnel /\ ~raceDns
      /\ saga[w].id = 2
      /\ saga[w].pc = "s7"
      /\ saga[w].before # {}
      /\ \E t \in tunnels : t.id = 2
      /\ ~ \E t \in tunnels : t.id = 1

(***************************************************************************)
(* The readiness waiter on its own, with the clock it reads.               *)
(***************************************************************************)
WaitTimeout == 300     \* provision(): self._wait_for_ready(url, timeout=300)
ProbeTimeout == 5      \* requests.get(url, timeout=5, verify=False)
ProbeInterval == 10    \* time.sleep(10)
MaxJitter == 1         \* seconds a sleep may last longer than asked

\* what a probe can come back with: a response, or a RequestException
ConnError == [kind |-> "error", status_code |-> 0]
Response(code) == [kind |-> "response", status_code |-> code]
ProbeOutcomes == { Response(c) : c \in {200, 404, 499, 500, 503} } \cup {ConnError}

\* A mutant of the readiness test: a status of 500 counts as ready.
ProbeReadyLe(outcome) ==
    outcome.kind = "response" /\ outcome.status_code <= 500

\* `if response.status_code < 500: return True`, inside the try whose except
\* clause passes on RequestException
ProbeReady(outcome) ==
    outcome.kind = "response" /\ outcome.status_code < 500

\* _wait_for_ready is entered: start_time = time.time()
WaitStart ==
    /\ wt.pc = "idle"
    /\ wt' = [pc |-> "test", elapsed |-> 0, issuedAt |-> -1, outcome |-> ConnError,
              probes |-> 0, ready |-> 0]
    /\ UNCHANGED <<world, connected, started, threads, saga, raceTunnel, raceDns,
                   vName, vResult, vRoute, aUsed, aResult, hk, co>>

\* `while time.time() - start_time < timeout:`; the probe is issued when the
\* test passes, the timeout exception is raised when it does not
WaitTest ==
    /\ wt.pc = "test"
    /\ wt' = IF wt.elapsed < WaitTimeout
             THEN [wt EXCEPT !.pc = "probe", !.issuedAt = wt.elapsed, !.probes = @ + 1]
             ELSE [wt EXCEPT !.pc = "raised"]
    /\ UNCHANGED <<world, connected, started, threads, saga, raceTunnel, raceDns,
                   vName, vResult, vRoute, aUsed, aResult, hk, co>>

\* requests.get(...) comes back after d seconds with a response or an error
WaitProbe ==
    /\ wt.pc = "probe"
    /\ \E d \in 0..ProbeTimeout, r \in ProbeOutcomes :
         wt' = [wt EXCEPT !.elapsed = @ + d,
                          !.outcome = r,
                          !.ready = IF r.kind = "response" /\ r.status_code < 500
                                    THEN @ + 1 ELSE @,
                          !.pc = IF ProbeReady(r) THEN "returned" ELSE "sleep"]
    /\ UNCHANGED <<world, connected, started, threads, saga, raceTunnel, raceDns,
                   vName, vResult, vRoute, aUsed, aResult, hk, co>>

\* time.sleep(10), then back to the loop test
WaitSleep ==
    /\ wt.pc = "sleep"
    /\ \E j \in 0..MaxJitter :
         wt' = [wt EXCEPT !.elapsed = @ + ProbeInterval + j, !.pc = "test"]
    /\ UNCHANGED <<world, connected, started, threads, saga, raceTunnel, raceDns,
                   vName, vResult, vRoute, aUsed, aResult, hk, co>>

NextWait == WaitStart \/ WaitTest \/ WaitProbe \/ WaitSleep

InitWait == SagaIdle /\ threads = {} /\ HarnessIdle

SpecWait == InitWait /\ [][NextWait]_vars

(***************************************************************************)
(* C11: the readiness waiter returns success on the first probe whose      *)
(* response status is below 500; a connection error or a status of 500 or  *)
(* more is "not yet ready" and is followed by the sleep and another pass   *)
(* of the loop; the timeout error is raised only when the deadline has     *)
(* been reached with no probe having succeeded; no probe is issued once    *)
(* the elapsed time has reached the deadline.                              *)
(***************************************************************************)
C11_WaiterContract ==
    /\ wt.pc = "returned" =>
         /\ wt.outcome.kind = "response" /\ wt.outcome.status_code < 500
         /\ wt.ready = 1
    /\ wt.pc = "sleep" =>
         /\ wt.outcome.kind = "error" \/ wt.outcome.status_code >= 500
         /\ wt.ready = 0
    /\ wt.pc = "raised" => wt.elapsed >= WaitTimeout /\ wt.ready = 0
    /\ wt.pc \in {"probe", "sleep", "returned", "raised"} =>
         wt.issuedAt < WaitTimeout

\* the waiter has returned on a status of 499 after earlier probes that
\* failed, the last of them issued in the last seconds before the deadline
C11_Witness ==
    /\ wt.pc = "returned"
    /\ wt.outcome = Response(499)
    /\ wt.probes >= 2
    /\ wt.issuedAt = WaitTimeout - 1

\* the kind of resource a ledger key stands for: the compensation _rollback
\* runs when the key is present
LedgerKind(key) ==
    CASE key = "tunnel_id" -> "tunnel"
      [] key = "dns_record_id" -> "dns"
      [] key = "metadata_uploaded" -> "metadata"
      [] key = "vmid" -> "instance"

LedgerKinds(resources) ==
    [ i \in 1..Len(resources) |-> LedgerKind(resources[i][1]) ]

(***************************************************************************)
(* C12: a provision() run in which all ten steps succeed returns a result  *)
(* with status 'active', the url https://<name>.<domain>, the allocated    *)
(* instance id and the id of the tunnel it created, never calls _rollback, *)
(* and ends with a ledger of exactly four entries in creation order:       *)
(* tunnel, DNS record, metadata, instance.                                 *)
(***************************************************************************)
C12_SuccessResultAndLedger ==
    \A w \in Workers :
      LET s == saga[w] IN
      s.pc = "returned" =>
        /\ s.result.status = "active"
        /\ s.result.url = Url(s.subdomain)
        /\ s.result.vmid = s.vmid
        /\ s.result.tunnel_id = s.id
        /\ s.rbLog = <<>> /\ s.failedStep = 0
        /\ LedgerKinds(s.created_resources) = <<"tunnel", "dns", "metadata", "instance">>

\* what does hold of a successful run: the result, no rollback, and a ledger
\* of four entries registered as tunnel, DNS record, instance, metadata
C12_SuccessResultAndLedgerAsRegistered ==
    \A w \in Workers :
      LET s == saga[w] IN
      s.pc = "returned" =>
        /\ s.result.status = "active"
        /\ s.result.url = Url(s.subdomain)
        /\ s.result.vmid = s.vmid
        /\ s.result.tunnel_id = s.id
        /\ s.rbLog = <<>> /\ s.failedStep = 0
        /\ LedgerKinds(s.created_resources) = <<"tunnel", "dns", "instance", "metadata">>

(***************************************************************************)
(* The webhook endpoint and its two background handlers.                   *)
(***************************************************************************)
MaxEvents == 2   \* requests the webhook endpoint receives per behaviour

CheckoutCompleted == "checkout.session.completed"
SubscriptionDeleted == "customer.subscription.deleted"
EventTypes == {CheckoutCompleted, SubscriptionDeleted, "invoice.paid"}

\* str(v) of an integer, and int(s): the integer back from such a string,
\* ValueError for any other string
StrOfInt(v) == <<"digits", v>>
IsIntString(s) == Len(s) = 2 /\ s[1] = "digits"
IntOfStr(s) == s[2]

\* the event objects the payment platform sends
CheckoutData ==
    { [NoData EXCEPT !.subdomain = n, !.oss_type = "nginx", !.subscription = sub] :
        n \in {NameA, NameBad}, sub \in {None, <<"sub">>} }
DeletedData ==
    { [NoData EXCEPT !.vmid = v, !.tunnel_id = tid, !.subdomain = n, !.customer = c] :
        v \in {None, StrOfInt(VmidLo), <<"x">>},
        tid \in {None, <<"tid">>},
        n \in {None, NameA},
        c \in {None, <<"cus_id">>, <<"email", "a@b">>} }
EventData(type) ==
    CASE type = CheckoutCompleted -> CheckoutData
      [] type = SubscriptionDeleted -> DeletedData
      [] OTHER -> {NoData}

\* A mutant of the dispatch on event.type: every other type is handled as a
\* completed checkout.
DispatchAll(type) ==
    IF type = SubscriptionDeleted THEN "_handle_subscription_deleted"
    ELSE "_handle_checkout_completed"

\* stripe_webhook: the background task registered for an event type
Dispatch(type) ==
    CASE type = CheckoutCompleted -> "_handle_checkout_completed"
      [] type = SubscriptionDeleted -> "_handle_subscription_deleted"
      [] OTHER -> "none"

\* the attributes of class TamesukeProvisioner
ProvisionerAttrs ==
    {"__init__", "connect", "_validate_subdomain", "_rollback", "provision",
     "_get_next_vmid", "_create_tunnel", "_get_tunnel_token", "_configure_tunnel",
     "_create_dns_record", "_create_metadata", "_upload_metadata", "_clone_lxc",
     "_start_lxc", "_wait_for_ready"}

\* evaluating provisioner.<name>: the bound method, or AttributeError
GetAttr(name) == IF name \in ProvisionerAttrs THEN "method" ELSE "AttributeError"

\* the webhook endpoint is at rest: no background task is pending or running
HookRest == {"idle", "rejected", "ignored", "co_done", "co_raised",
             "sd_skipped", "sd_done", "sd_raised"}

hookIdle == <<vName, vResult, vRoute, aUsed, aResult, wt, co>>

\* stripe_webhook(request, background_tasks, stripe_signature)
StripeWebhook ==
    /\ hk.pc \in HookRest
    /\ hk.events < MaxEvents
    /\ \E verified \in BOOLEAN, type \in EventTypes :
         \E data \in EventData(type) :
           LET task == IF verified THEN Dispatch(type) ELSE "none" IN
           hk' = [hk EXCEPT !.events = @ + 1,
                            !.verified = verified, !.type = type, !.data = data,
                            !.response = IF verified THEN "ok" ELSE "400",
                            !.task = task,
                            !.log = <<>>, !.error = "none",
                            !.cleanup = "none", !.cleanupLog = <<>>,
                            !.pc = IF ~verified THEN "rejected"
                                   ELSE IF task = "none" THEN "ignored"
                                   ELSE "scheduled"]
    /\ UNCHANGED <<hookIdle, world, connected, started, threads, saga,
                   raceTunnel, raceDns>>

\* _handle_checkout_completed: the fields are read, run_provision is awaited
HandleCheckoutCompleted ==
    /\ hk.pc = "scheduled"
    /\ hk.task = "_handle_checkout_completed"
    /\ saga' = [saga EXCEPT ![1] =
                  NewSaga(hk.data.subdomain, hk.data.oss_type, "get_provisioner")]
    /\ started' = started + 1
    /\ hk' = [hk EXCEPT !.pc = "co_provision", !.log = Append(@, "provision")]
    /\ UNCHANGED <<hookIdle, world, connected, threads, raceTunnel, raceDns>>

\* A mutant of the handler: an exception of run_provision is swallowed and
\* the handler goes on to the welcome email.
HandleCheckoutFailedContinues ==
    /\ hk.pc = "co_provision"
    /\ saga[1].pc = "raised"
    /\ hk' = [hk EXCEPT !.pc = "co_email"]
    /\ UNCHANGED <<hookIdle, world, connected, started, threads, saga,
                   raceTunnel, raceDns>>

\* _handle_checkout_completed: run_provision raised; so does the handler
HandleCheckoutFailed ==
    /\ hk.pc = "co_provision"
    /\ saga[1].pc = "raised"
    /\ hk' = [hk EXCEPT !.pc = "co_raised", !.error = saga[1].raised.kind]
    /\ UNCHANGED <<hookIdle, world, connected, started, threads, saga,
                   raceTunnel, raceDns>>

\* update_subscription_metadata: metadata={k: str(v) ...} is stored
StrMetadata(result) ==
    [vmid |-> StrOfInt(result.vmid), url |-> result.url,
     tunnel_id |-> result.tunnel_id]

\* _handle_checkout_completed: run_provision returned; the subscription
\* metadata is updated when the session names a subscription
HandleCheckoutUpdate ==
    /\ hk.pc = "co_provision"
    /\ saga[1].pc = "returned"
    /\ IF Truthy(hk.data.subscription)
       THEN \E ok \in BOOLEAN :
              hk' = IF ok
                    THEN [hk EXCEPT !.subscription = StrMetadata(saga[1].result),
                                    !.log = Append(@, "update"),
                                    !.pc = "co_email"]
                    ELSE [hk EXCEPT !.log = Append(@, "update_failed"),
                                    !.error = "StripeError",
                                    !.pc = "co_raised"]
       ELSE hk' = [hk EXCEPT !.pc = "co_email"]
    /\ UNCHANGED <<hookIdle, world, connected, started, threads, saga,
                   raceTunnel, raceDns>>

\* _handle_checkout_completed: send_welcome_email inside try/except Exception
HandleCheckoutEmail ==
    /\ hk.pc = "co_email"
    /\ \E ok \in BOOLEAN :
         hk' = [hk EXCEPT !.emails = IF ok THEN Append(@, "welcome") ELSE @,
                          !.log = Append(@, IF ok THEN "email" ELSE "email_failed"),
                          !.pc = "co_done"]
    /\ UNCHANGED <<hookIdle, world, connected, started, threads, saga,
                   raceTunnel, raceDns>>

\* _handle_subscription_deleted up to the call of run_cleanup: the metadata
\* test, then int(vmid_str)
HandleSubscriptionDeleted ==
    /\ hk.pc = "scheduled"
    /\ hk.task = "_handle_subscription_deleted"
    /\ hk' = IF ~ (Truthy(hk.data.vmid) /\ Truthy(hk.data.tunnel_id)
                   /\ Truthy(hk.data.subdomain))
             THEN [hk EXCEPT !.pc = "sd_skipped"]
             ELSE IF ~IsIntString(hk.data.vmid)
             THEN [hk EXCEPT !.pc = "sd_raised", !.error = "ValueError"]
             ELSE [hk EXCEPT !.pc = "sd_get_provisioner", !.cleanup = "running"]
    /\ UNCHANGED <<hookIdle, world, connected, started, threads, saga,
                   raceTunnel, raceDns>>

\* run_cleanup: provisioner = _get_provisioner()
RunCleanupGetProvisioner ==
    /\ hk.pc = "sd_get_provisioner"
    /\ IF connected
       THEN /\ hk' = [hk EXCEPT !.pc = "sd_cleanup"]
            /\ UNCHANGED connected
       ELSE \E ok \in BOOLEAN :
            /\ connected' = ok
            /\ hk' = IF ok THEN [hk EXCEPT !.pc = "sd_cleanup"]
                     ELSE [hk EXCEPT !.pc = "sd_raised", !.cleanup = "raised",
                                     !.error = "ConnectionError"]
    /\ UNCHANGED <<hookIdle, world, started, threads, saga, raceTunnel, raceDns>>

\* run_cleanup: the executor evaluates provisioner.cleanup(vmid=..., ...), and
\* the rest of _handle_subscription_deleted: the thank-you email inside
\* try/except Exception when a customer email is known
RunCleanupCall ==
    /\ hk.pc = "sd_cleanup"
    /\ IF GetAttr("cleanup") = "AttributeError"
       THEN hk' = [hk EXCEPT !.pc = "sd_raised", !.cleanup = "raised",
                             !.error = "AttributeError"]
       ELSE \E ok \in BOOLEAN :
              hk' = IF Truthy(hk.data.customer)
                    THEN [hk EXCEPT !.cleanup = "returned",
                                    !.emails = IF ok THEN Append(@, "thankyou") ELSE @,
                                    !.log = Append(@, IF ok THEN "email"
                                                      ELSE "email_failed"),
                                    !.pc = "sd_done"]
                    ELSE [hk EXCEPT !.cleanup = "returned", !.pc = "sd_done"]
    /\ UNCHANGED <<hookIdle, world, connected, started, threads, saga,
                   raceTunnel, raceDns>>

NextHook ==
    \/ StripeWebhook
    \/ HandleCheckoutCompleted \/ HandleCheckoutFailed
    \/ HandleCheckoutUpdate \/ HandleCheckoutEmail
    \/ HandleSubscriptionDeleted \/ RunCleanupGetProvisioner \/ RunCleanupCall
    \/ SagaRun(1)

\* one executor thread, empty platforms, no request yet
InitHook == SagaIdle /\ threads = {1} /\ HarnessIdle

SpecHook == InitHook /\ [][NextHook]_vars

\* the customer of the subscription is an expanded object with an email
EmailKnown(data) == Len(data.customer) = 2 /\ data.customer[1] = "email"

CleanupSteps ==
    <<"stop_instance", "delete_instance", "delete_metadata", "delete_dns",
      "delete_tunnel">>

(***************************************************************************)
(* C13: run_cleanup(vmid, tunnel_id, subdomain) never raises to its        *)
(* caller: whichever sub-steps fail, a DNS record that does not exist      *)
(* included, it completes and returns normally.                            *)
(***************************************************************************)
C13_CleanupNeverRaises ==
    hk.cleanup # "raised"

(***************************************************************************)
(* C14: once run_cleanup has ended, it has attempted stop instance, delete *)
(* instance, delete metadata, delete DNS record, delete tunnel, in this    *)
(* order, each whether or not an earlier one failed.                       *)
(***************************************************************************)
C14_CleanupStepsInOrder ==
    hk.cleanup \in {"raised", "returned"} =>
      [ i \in 1..Len(hk.cleanupLog) |-> hk.cleanupLog[i].op ] = CleanupSteps

(***************************************************************************)
(* C15: the published metadata document is write-once per instance id: no  *)
(* step of any run, overlapping runs included, writes the metadata path of *)
(* an instance id under which a document published by another run still    *)
(* exists, and a published document disappears only through the teardown   *)
(* call that deletes it.                                                    *)
(***************************************************************************)
C15_MetadataWriteOnce ==
    [][ /\ \A m \in metadata' \ metadata :
             ~ \E o \in metadata : o.vmid = m.vmid /\ o.owner # m.owner
        /\ \A o \in metadata \ metadata' :
             \/ \E w \in Workers : saga[w].pc = "rb_meta"
             \/ hk.pc = "sd_cleanup" ]_vars

\* the calls a rollback of this ledger is to attempt, in the order of _rollback
ExpectedCompensations(resources) ==
    LET keys == Keys(resources) IN
    (IF "vmid" \in keys THEN <<"stop_instance", "delete_instance">> ELSE <<>>)
    \o (IF "metadata_uploaded" \in keys /\ "vmid" \in keys
        THEN <<"delete_metadata">> ELSE <<>>)
    \o (IF "dns_record_id" \in keys THEN <<"delete_dns">> ELSE <<>>)
    \o (IF "tunnel_id" \in keys THEN <<"delete_tunnel">> ELSE <<>>)

RollbackOps(w) == [ i \in 1..Len(saga[w].rbLog) |-> saga[w].rbLog[i].op ]

(***************************************************************************)
(* C20: every compensation of _rollback is guarded on its own: whichever   *)
(* of stop instance, delete instance, delete metadata, delete DNS record   *)
(* and delete tunnel fail, the compensation of every ledger entry is       *)
(* attempted, once; a failed stop is followed by the delete of the         *)
(* instance.                                                               *)
(***************************************************************************)
C20_EveryCompensationAttempted ==
    \A w \in Workers :
      /\ RaisedAfterRollback(w) =>
           RollbackOps(w) = ExpectedCompensations(saga[w].created_resources)
      /\ \A i \in 1..Len(saga[w].rbLog) :
           (saga[w].rbLog[i].op = "stop_instance" /\ saga[w].pc = "raised") =>
             /\ i < Len(saga[w].rbLog)
             /\ saga[w].rbLog[i + 1].op = "delete_instance"

\* a rollback of a full ledger in which all five calls failed, the stop
\* included, and all five were made
C20_Witness ==
    \E w \in Workers :
      /\ RaisedAfterRollback(w)
      /\ Len(saga[w].rbLog) = 5
      /\ \A i \in 1..5 : ~saga[w].rbLog[i].ok
      /\ saga[w].rbLog[1].op = "stop_instance"
      /\ saga[w].rbLog[2].op = "delete_instance"

\* what the checkout handler may have done so far, in order
CheckoutLogs(subscribed) ==
    IF subscribed
    THEN { <<"provision">>, <<"provision", "update">>, <<"provision", "update_failed">>,
           <<"provision", "update", "email">>, <<"provision", "update", "email_failed">> }
    ELSE { <<"provision">>, <<"provision", "email">>, <<"provision", "email_failed">> }

InCheckoutHandler ==
    hk.task = "_handle_checkout_completed" /\ hk.pc # "scheduled"

(***************************************************************************)
(* C16: on a checkout-completed event the handler runs provisioning first, *)
(* then stores the resulting vmid, url and tunnel_id in the subscription   *)
(* metadata (when the session names a subscription), then sends the        *)
(* welcome email; if provisioning raises, neither the update nor the email *)
(* happens; if the email fails, the handler still ends normally, the       *)
(* metadata stays updated and the environment stays provisioned.           *)
(***************************************************************************)
C16_CheckoutHandlerOrder ==
    InCheckoutHandler =>
      /\ hk.log \in CheckoutLogs(Truthy(hk.data.subscription))
      /\ Len(hk.log) >= 2 => saga[1].pc = "returned"
      /\ saga[1].pc = "raised" =>
           /\ hk.log = <<"provision">>
           /\ hk.pc \in {"co_provision", "co_raised"}
      /\ (Len(hk.log) >= 2 /\ hk.log[2] = "update") =>
           /\ hk.subscription.vmid = StrOfInt(saga[1].vmid)
           /\ hk.subscription.url = Url(saga[1].subdomain)
           /\ hk.subscription.tunnel_id = saga[1].id
      /\ (Len(hk.log) >= 2 /\ hk.log[Len(hk.log)] = "email_failed") =>
           /\ hk.pc = "co_done" /\ hk.error = "none"
           /\ saga[1].rbLog = <<>>
           /\ \A kind \in Kinds : Exists(1, kind)

\* the welcome email has failed after the provisioning and the metadata
\* update, and the handler has ended normally
C16_Witness ==
    /\ InCheckoutHandler
    /\ hk.log = <<"provision", "update", "email_failed">>
    /\ hk.pc = "co_done"
    /\ hk.subscription # None

\* the subscription-deleted handler has ended
DeletedHandlerEnded ==
    /\ hk.task = "_handle_subscription_deleted"
    /\ hk.pc \in {"sd_skipped", "sd_done", "sd_raised"}

AllIdentifiers(data) ==
    Truthy(data.vmid) /\ Truthy(data.tunnel_id) /\ Truthy(data.subdomain)

\* the three identifiers as a successful checkout stored them
StoredIdentifiers(data) == AllIdentifiers(data) /\ IsIntString(data.vmid)

(***************************************************************************)
(* C17: on a subscription-deleted event whose metadata carries vmid,       *)
(* tunnel_id and subdomain and whose customer email is known, the handler  *)
(* runs the cleanup and afterwards sends the thank-you email; when one of  *)
(* the three identifiers is missing it runs no cleanup and sends no email. *)
(***************************************************************************)
C17_CleanupThenThankYou ==
    DeletedHandlerEnded =>
      /\ (StoredIdentifiers(hk.data) /\ EmailKnown(hk.data)) =>
           /\ hk.cleanup = "returned"
           /\ hk.log # <<>>
           /\ hk.log[Len(hk.log)] \in {"email", "email_failed"}
      /\ ~AllIdentifiers(hk.data) =>
           /\ hk.cleanup = "none"
           /\ hk.log = <<>>
           /\ hk.pc = "sd_skipped"

(***************************************************************************)
(* C18: the webhook endpoint registers a background task only for an event *)
(* whose signature was verified: a failed verification is answered 400     *)
(* with nothing scheduled; a verified event is answered {status: ok}       *)
(* before its background task has started; an event of a type other than   *)
(* checkout-completed and subscription-deleted schedules nothing.          *)
(***************************************************************************)
C18_OnlyVerifiedEventsScheduled ==
    hk.events >= 1 =>
      /\ ~hk.verified =>
           /\ hk.response = "400" /\ hk.task = "none" /\ hk.pc = "rejected"
           /\ hk.log = <<>> /\ hk.cleanup = "none"
      /\ hk.verified => hk.response = "ok"
      /\ hk.task = "_handle_checkout_completed" =>
           hk.verified /\ hk.type = CheckoutCompleted
      /\ hk.task = "_handle_subscription_deleted" =>
           hk.verified /\ hk.type = SubscriptionDeleted
      /\ hk.type \notin {CheckoutCompleted, SubscriptionDeleted} =>
           hk.task = "none" /\ hk.pc \in {"rejected", "ignored"}
      /\ hk.pc = "scheduled" =>
           /\ hk.response = "ok" /\ hk.log = <<>> /\ hk.cleanup = "none"
           /\ saga[1].pc \in Terminal

\* after one event has been handled, a checkout-completed event whose
\* signature does not verify has been answered 400 and nothing has started
C18_Witness ==
    /\ hk.events = 2
    /\ hk.type = CheckoutCompleted
    /\ ~hk.verified
    /\ hk.response = "400"
    /\ started = 1
    /\ saga[1].pc = "returned"

(***************************************************************************)
(* The checkout endpoint.                                                  *)
(***************************************************************************)
MaxCheckouts == 2      \* requests the checkout endpoint receives per behaviour
\* A mutant of the DNS lookup: every name is reported available.
CheckDnsAlwaysAvailable(subdomain, zone) == TRUE

\* _check_dns: TRUE when no listed record is named subdomain.domain
CheckDns(subdomain, zone) ==
    ~ \E record \in ListByName(zone, Fqdn(subdomain)) : record.name = Fqdn(subdomain)

NameNewline == <<"a", "\n">>
NameLong == Repeat("a", RouteLenLimit + 1)
CheckoutNames == {NameA, NameB, NameBad, NameNewline, NameLong}

checkoutIdle == <<vName, vResult, vRoute, aUsed, aResult, wt, hk>>

\* create_checkout(body): a request whose body passed the model validation;
\* step 1, _validate_subdomain(body.subdomain)
CreateCheckout ==
    /\ co.pc \in {"idle", "done"}
    /\ co.requests < MaxCheckouts
    /\ \E name \in CheckoutNames :
         co' = IF RouteValidateSubdomain(name) # "ok"
               THEN [co EXCEPT !.requests = @ + 1, !.subdomain = name,
                               !.status = "400", !.log = <<>>, !.found = {},
                               !.session = FALSE, !.pc = "done"]
               ELSE [co EXCEPT !.requests = @ + 1, !.subdomain = name,
                               !.status = "none", !.log = <<"validated">>,
                               !.found = {}, !.session = FALSE,
                               !.pc = "check_dns"]
    /\ UNCHANGED <<checkoutIdle, world, connected, started, threads, saga,
                   raceTunnel, raceDns>>

\* create_checkout: step 2, _check_dns in the executor; an error of the
\* lookup is not caught by the handler
CheckoutCheckDns ==
    /\ co.pc = "check_dns"
    /\ \E ok \in BOOLEAN :
         co' = IF ~ok
               THEN [co EXCEPT !.status = "500", !.log = Append(@, "lookup_failed"),
                               !.pc = "done"]
               ELSE IF ~CheckDns(co.subdomain, dnsRecords)
               THEN [co EXCEPT !.status = "409", !.log = Append(@, "looked_up"),
                               !.found = { r.id : r \in { x \in dnsRecords :
                                             x.name = Fqdn(co.subdomain) } },
                               !.pc = "done"]
               ELSE [co EXCEPT !.log = Append(@, "looked_up"),
                               !.found = { r.id : r \in { x \in dnsRecords :
                                             x.name = Fqdn(co.subdomain) } },
                               !.pc = "create_session"]
    /\ UNCHANGED <<checkoutIdle, world, connected, started, threads, saga,
                   raceTunnel, raceDns>>

\* create_checkout: step 3, stripe_service.create_checkout_session
CheckoutCreateSession ==
    /\ co.pc = "create_session"
    /\ \E outcome \in {"session", "ValueError", "Exception"} :
         co' = CASE outcome = "session" ->
                      [co EXCEPT !.status = "200", !.session = TRUE,
                                 !.sessions = @ + 1,
                                 !.log = Append(@, "session"), !.pc = "done"]
                 [] outcome = "ValueError" -> [co EXCEPT !.status = "400", !.pc = "done"]
                 [] outcome = "Exception" -> [co EXCEPT !.status = "500", !.pc = "done"]
    /\ UNCHANGED <<checkoutIdle, world, connected, started, threads, saga,
                   raceTunnel, raceDns>>

\* a provisioning elsewhere creates a record in the zone, or one is removed
ZoneChange ==
    /\ \E r \in PreDns :
         dnsRecords' = IF r \in dnsRecords THEN dnsRecords \ {r}
                       ELSE dnsRecords \cup {r}
    /\ UNCHANGED <<harness, tunnels, metadata, instances, connected, started,
                   threads, saga, raceTunnel, raceDns>>

NextCheckout ==
    CreateCheckout \/ CheckoutCheckDns \/ CheckoutCreateSession \/ ZoneChange

InitCheckout ==
    /\ tunnels = {} /\ metadata = {} /\ instances = {}
    /\ dnsRecords \in SUBSET PreDns
    /\ connected = FALSE /\ started = 0 /\ threads = {}
    /\ saga = [w \in Workers |-> IdleSaga]
    /\ raceTunnel = FALSE /\ raceDns = FALSE
    /\ HarnessIdle

SpecCheckout == InitCheckout /\ [][NextCheckout]_vars

(***************************************************************************)
(* C19: the checkout endpoint creates a payment session only after the     *)
(* subdomain has passed validation and the DNS lookup has found no record  *)
(* with its fully-qualified name; a subdomain the validation rejects is    *)
(* answered 400 and one present in DNS is answered 409, both without a     *)
(* session being created.                                                  *)
(***************************************************************************)
C19_SessionOnlyAfterChecks ==
    /\ co.session =>
         /\ co.log = <<"validated", "looked_up", "session">>
         /\ RouteValidateSubdomain(co.subdomain) = "ok"
         /\ co.found = {}
         /\ co.status = "200"
    /\ (co.requests >= 1 /\ RouteValidateSubdomain(co.subdomain) # "ok") =>
         /\ co.status = "400" /\ co.pc = "done"
         /\ co.log = <<>> /\ ~co.session
    /\ co.found # {} =>
         /\ co.status = "409" /\ co.pc = "done" /\ ~co.session
    /\ co.sessions <= co.requests

\* after a first request got its session, a second one for a name that is in
\* the zone has been answered 409
C19_Witness ==
    /\ co.requests = 2
    /\ co.sessions = 1
    /\ co.status = "409"
    /\ co.subdomain = NameA
    /\ co.found # {}

(***************************************************************************)
(* C24: the readiness waiter blocks its caller for at most its timeout:    *)
(* on the clock it reads, it returns or raises no later than 300 seconds   *)
(* after it started, with probes of up to 5 seconds and a sleep of 10      *)
(* seconds after each unsuccessful probe.                                  *)
(***************************************************************************)
C24_WaiterEndsByDeadline ==
    wt.pc \in {"returned", "raised"} => wt.elapsed <= WaitTimeout

(***************************************************************************)
(* C26: the validator of the HTTP routes and the validator of provision()  *)
(* implement the same rule: on every input string one raises its           *)
(* validation error exactly when the other raises its own.                 *)
(***************************************************************************)
C26_ValidatorsAgree ==
    (vResult # Pending /\ vRoute # Pending) =>
      ((vResult = "ok") <=> (vRoute = "ok"))

\* both validators have rejected a name of 12 characters that ends with a
\* hyphen
C26_Witness ==
    /\ vResult = "hyphen_edge"
    /\ vRoute = "400"
    /\ Len(vName) = LenLimit
    /\ EndsWith(vName, "-")

\* the run of thread w is in flight and holds an identifier
InFlight(w) == saga[w].pc \in Forward /\ saga[w].vmid # NoVmid

(***************************************************************************)
(* C25: two provision runs executing concurrently can both be allocated    *)
(* the same instance id.  The allocator reads the inventory without        *)
(* reserving: the id a run is allocated is the smallest of the range that  *)
(* no instance of the inventory has, whatever ids the runs in flight hold, *)
(* and an instance enters the inventory only at the clone step of the run  *)
(* that holds its id; a state with two runs in flight holding one id is    *)
(* reachable (C25_Witness).                                                *)
(***************************************************************************)
C25_AllocationIgnoresRunsInFlight ==
    [][ /\ \A w \in Workers :
             (saga[w].pc = "s1" /\ saga'[w].pc = "s2_list") =>
               /\ saga'[w].vmid \in VmidLo..(VmidHi - 1)
               /\ ~ \E i \in instances : i.vmid = saga'[w].vmid
               /\ \A v \in VmidLo..(saga'[w].vmid - 1) :
                    \E i \in instances : i.vmid = v
        /\ \A i \in instances' :
             (~ \E j \in instances : j.vmid = i.vmid) =>
               \E w \in Workers : /\ saga[w].pc = "s8"
                                  /\ saga[w].vmid = i.vmid
                                  /\ saga'[w].pc = "s9" ]_vars

\* two runs in flight hold the identifier 9000, and neither has cloned
C25_Witness ==
    /\ InFlight(1) /\ InFlight(2)
    /\ saga[1].vmid = saga[2].vmid
    /\ saga[1].vmid = VmidLo
    /\ instances = {}

\* thread w is inside _rollback
InRollback(w) == saga[w].pc \in { RbSteps[i] : i \in 1..Len(RbSteps) }

(***************************************************************************)
(* C27: rollback of a provision run stops or deletes only resources that   *)
(* this same run created.  In every step a run takes inside _rollback, an  *)
(* instance that is stopped or deleted, a metadata document that is        *)
(* deleted, a DNS record that is deleted and a tunnel that is deleted were *)
(* created by the run that takes the step.                                 *)
(***************************************************************************)
C27_RollbackTouchesOwnResourcesOnly ==
    [][ \A w \in Workers :
          (InRollback(w) /\ saga'[w] # saga[w]) =>
            /\ \A i \in instances \ instances' : i.owner = saga[w].id
            /\ \A m \in metadata \ metadata' : m.owner = saga[w].id
            /\ \A r \in dnsRecords \ dnsRecords' : r.id = saga[w].id
            /\ \A t \in tunnels \ tunnels' : t.id = saga[w].id ]_vars

\* the run with identifier id has returned its result: its environment is live
ProvisionedOk(id) ==
    \E u \in Workers : saga[u].pc = "returned" /\ saga[u].id = id

(***************************************************************************)
(* C28: a provision run never removes the DNS record of an environment     *)
(* that an earlier run provisioned successfully under the same name.  In   *)
(* every delete of the pre-clean of _create_dns_record, the record that is *)
(* deleted was not created by a run that has returned its result.          *)
(***************************************************************************)
C28_PreCleanSparesLiveRecords ==
    [][ \A w \in Workers :
          (saga[w].pc = "s5_delete" /\ saga'[w] # saga[w]) =>
            \A r \in dnsRecords \ dnsRecords' : ~ ProvisionedOk(r.id) ]_vars

(***************************************************************************)
(* C23: the pre-clean of createOrReplace ignores "not found" on delete.    *)
(* No run fails at step 2 or at step 5 because a tunnel or a DNS record    *)
(* its pre-clean listed was gone when it came to delete it.                *)
(***************************************************************************)
C23_PreCleanIgnoresNotFound ==
    \A w \in Workers :
      ~ (saga[w].failedStep \in {2, 5} /\ saga[w].error.kind = "NotFoundError")

\* the external calls of the try block of provision(), in program order
ForwardOrder == <<"s1", "s2_list", "s2_delete", "s2_create", "s3", "s4",
                  "s5_list", "s5_delete", "s5_create", "s7", "s8", "s9", "s10">>
Position(pc) == CHOOSE i \in 1..Len(ForwardOrder) : ForwardOrder[i] = pc
\* the step of provision() a call belongs to
StepOf(pc) ==
    CASE pc = "s1" -> 1
      [] pc \in {"s2_list", "s2_delete", "s2_create"} -> 2
      [] pc = "s3" -> 3
      [] pc = "s4" -> 4
      [] pc \in {"s5_list", "s5_delete", "s5_create"} -> 5
      [] pc = "s7" -> 7
      [] pc = "s8" -> 8
      [] pc = "s9" -> 9
      [] pc = "s10" -> 10
\* the delete calls of a pre-clean loop, one per listed resource
PreCleanLoop == {"s2_delete", "s5_delete"}

(***************************************************************************)
(* C21: within one provision run no step of 1-9 is retried.  A call of the *)
(* try block that succeeds is followed by a later call, never by itself or *)
(* an earlier one (the pre-clean loop goes on to a resource it has not     *)
(* deleted yet); a call that fails is followed by _rollback or by the      *)
(* raise, with the step it belongs to noted as the failed one; and a run   *)
(* that has entered _rollback or has raised makes no further call of the   *)
(* try block.                                                              *)
(***************************************************************************)
C21_NoStepRetried ==
    [][ \A w \in Workers :
          /\ (saga[w].pc \in Forward /\ saga'[w] # saga[w]) =>
               \/ /\ saga'[w].pc \in Forward
                  /\ saga'[w].failedStep = 0
                  /\ \/ Position(saga'[w].pc) > Position(saga[w].pc)
                     \/ /\ saga'[w].pc = saga[w].pc
                        /\ saga[w].pc \in PreCleanLoop
                        /\ saga'[w].existing \subseteq saga[w].existing
                        /\ saga'[w].existing # saga[w].existing
               \/ /\ saga[w].pc = "s10"
                  /\ saga'[w].pc = "returned"
               \/ /\ saga'[w].pc \in { RbSteps[i] : i \in 1..Len(RbSteps) } \cup {"raised"}
                  /\ saga'[w].failedStep = StepOf(saga[w].pc)
          /\ (InRollback(w) \/ saga[w].pc = "raised") =>
               saga'[w].pc \notin Forward ]_vars

\* a run failed at its clone, its rollback attempted five compensations and
\* it has raised
C21_Witness ==
    \E w \in Workers :
      /\ saga[w].pc = "raised"
      /\ saga[w].failedStep = 8
      /\ Len(saga[w].rbLog) = 5

\* the call that follows a successful call of the try block
Successor(pc) ==
    CASE pc = "s1" -> {"s2_list"}
      [] pc = "s2_list" -> {"s2_delete", "s2_create"}
      [] pc = "s2_delete" -> {"s2_delete", "s2_create"}
      [] pc = "s2_create" -> {"s3"}
      [] pc = "s3" -> {"s4"}
      [] pc = "s4" -> {"s5_list"}
      [] pc = "s5_list" -> {"s5_delete", "s5_create"}
      [] pc = "s5_delete" -> {"s5_delete", "s5_create"}
      [] pc = "s5_create" -> {"s7"}
      [] pc = "s7" -> {"s8"}
      [] pc = "s8" -> {"s9"}
      [] pc = "s9" -> {"s10"}
      [] pc = "s10" -> {"returned"}
\* thread w has come to the call at pc, or has gone past it
Reached(w, pc) ==
    \/ saga[w].pc = "returned"
    \/ saga[w].pc \in Forward /\ Position(saga[w].pc) >= Position(pc)

(***************************************************************************)
(* C22: the steps of a provision run execute in the fixed order allocate,  *)
(* tunnel, token, routing, DNS record, metadata, clone, start, wait, and a *)
(* step begins only after every earlier step has succeeded.  A successful  *)
(* call is followed by the next call of the program order; a run that has  *)
(* come to a step holds what the earlier steps produce: its id after step  *)
(* 1, its tunnel after step 2, its DNS record after step 5, its published  *)
(* metadata after step 7, its instance after step 8, running after step 9. *)
(* So a DNS record is created only by a run that has its tunnel, and an    *)
(* instance is cloned only by a run that has published its metadata.       *)
(***************************************************************************)
C22_StepsInFixedOrder ==
    /\ [][ \A w \in Workers :
             (saga[w].pc \in Forward /\ saga'[w] # saga[w]
              /\ saga'[w].pc \in Forward \cup {"returned"}) =>
               saga'[w].pc \in Successor(saga[w].pc) ]_vars
    /\ [](\A w \in Workers :
            /\ Reached(w, "s2_list") => saga[w].vmid # NoVmid
            /\ Reached(w, "s3") =>
                 /\ "tunnel" \in saga[w].created
                 /\ \E t \in tunnels : t.id = saga[w].id
            /\ Reached(w, "s7") =>
                 /\ "dns" \in saga[w].created
                 /\ \E r \in dnsRecords : r.id = saga[w].id
            /\ Reached(w, "s8") =>
                 /\ "metadata" \in saga[w].created
                 /\ \E m \in metadata : m.vmid = saga[w].vmid /\ m.owner = saga[w].id
            /\ Reached(w, "s9") =>
                 /\ "instance" \in saga[w].created
                 /\ \E i \in instances : i.vmid = saga[w].vmid /\ i.owner = saga[w].id
            /\ Reached(w, "s10") =>
                 \E i \in instances : i.vmid = saga[w].vmid /\ i.running
            /\ "dns" \in saga[w].created => "tunnel" \in saga[w].created
            /\ "instance" \in saga[w].created => "metadata" \in saga[w].created)

\* a run has come to its wait: all four resources exist and its instance runs
C22_Witness ==
    \E w \in Workers :
      /\ saga[w].pc = "s10"
      /\ saga[w].created = {"tunnel", "dns", "metadata", "instance"}
      /\ \E i \in instances : i.owner = saga[w].id /\ i.running

(***************************************************************************)
(* A provision run with its readiness wait spelled out: step 10 enters     *)
(* _wait_for_ready, the loop runs against the clock, and provision()       *)
(* continues with what the wait returned or raised.                        *)
(***************************************************************************)
\* Step 10: provision() calls self._wait_for_ready(url, timeout=300)
Step10Begin(w) ==
    /\ saga[w].pc = "s10"
    /\ wt.pc = "idle"
    /\ wt' = [pc |-> "test", elapsed |-> 0, issuedAt |-> -1, outcome |-> ConnError,
              probes |-> 0, ready |-> 0]
    /\ saga' = [saga EXCEPT ![w].pc = "s10_wait"]
    /\ UNCHANGED <<world, connected, started, threads, raceTunnel, raceDns,
                   vName, vResult, vRoute, aUsed, aResult, hk, co>>

\* A mutant of the end of step 10: the timeout of the wait is caught and the
\* wait is entered again.
Step10EndWaitsAgain(w) ==
    LET s == saga[w] IN
    /\ s.pc = "s10_wait"
    /\ wt.pc \in {"returned", "raised"}
    /\ saga' = [saga EXCEPT ![w] =
         IF wt.pc = "returned"
         THEN [s EXCEPT !.pc = "returned",
                        !.result = [vmid |-> s.vmid,
                                    tunnel_id |-> Value(s.created_resources, "tunnel_id"),
                                    url |-> Url(s.subdomain),
                                    status |-> "active"]]
         ELSE [s EXCEPT !.pc = "s10"]]
    /\ wt' = IdleWaiter
    /\ UNCHANGED <<world, connected, started, threads, raceTunnel, raceDns,
                   vName, vResult, vRoute, aUsed, aResult, hk, co>>

\* _wait_for_ready has returned and provision() returns its result, or it
\* has raised and the except clause of provision() rolls back
Step10End(w) ==
    LET s == saga[w] IN
    /\ s.pc = "s10_wait"
    /\ wt.pc \in {"returned", "raised"}
    /\ saga' = [saga EXCEPT ![w] =
         IF wt.pc = "returned"
         THEN [s EXCEPT !.pc = "returned",
                        !.result = [vmid |-> s.vmid,
                                    tunnel_id |-> Value(s.created_resources, "tunnel_id"),
                                    url |-> Url(s.subdomain),
                                    status |-> "active"]]
         ELSE Fail(s, 10, "TimeoutError")]
    /\ wt' = IdleWaiter
    /\ UNCHANGED <<world, connected, started, threads, raceTunnel, raceDns,
                   vName, vResult, vRoute, aUsed, aResult, hk, co>>

\* a step of a run that has been started: a call returns or fails, or the
\* clock of the wait advances
RunStep(w) ==
    \/ GetProvisioner(w) \/ Validate(w) \/ Connect(w)
    \/ Step1Allocate(w)
    \/ Step2List(w) \/ Step2Delete(w) \/ Step2Create(w)
    \/ Step3Token(w) \/ Step4Configure(w)
    \/ Step5List(w) \/ Step5Delete(w) \/ Step5Create(w)
    \/ Step7Upload(w) \/ Step8Clone(w) \/ Step9Start(w)
    \/ Step10Begin(w) \/ Step10End(w)
    \/ RbStop(w) \/ RbDelete(w) \/ RbMeta(w) \/ RbDns(w) \/ RbTunnel(w)

Progress == (\E w \in Workers : RunStep(w)) \/ WaitTest \/ WaitProbe \/ WaitSleep

NextLive ==
    \/ \E w \in Workers : ProvisionDirect(w) \/ RunProvision(w)
    \/ Progress

\* One thread; the platforms hold the tunnel and the DNS record a failed
\* attempt for the first name left behind.
InitLive ==
    /\ tunnels = { t \in PreTunnels : t.id = 101 }
    /\ dnsRecords = { r \in PreDns : r.id = 101 }
    /\ metadata = {} /\ instances = {}
    /\ connected = FALSE
    /\ started = 0
    /\ threads = {1}
    /\ saga = [w \in Workers |-> IdleSaga]
    /\ raceTunnel = FALSE /\ raceDns = FALSE
    /\ HarnessIdle

\* every call that has been issued comes back, and the clock advances
SpecLive == InitLive /\ [][NextLive]_vars /\ WF_vars(Progress)

\* provision() is executing on thread w
Running(w) == saga[w].pc \notin Terminal

(***************************************************************************)
(* C29: every provision run terminates.  With every external call coming  *)
(* back and the clock advancing, a run that has been started eventually    *)
(* has returned or raised; a run that has returned has the status          *)
(* 'active' and made no rollback call; a run that has raised has made      *)
(* every compensation of its ledger, and a run never makes a compensation  *)
(* twice.                                                                  *)
(***************************************************************************)
C29_EveryRunTerminates ==
    /\ \A w \in Workers : Running(w) ~> (saga[w].pc \in {"returned", "raised"})
    /\ [](\A w \in Workers :
            /\ saga[w].pc = "returned" =>
                 saga[w].result.status = "active" /\ saga[w].rbLog = <<>>
            /\ saga[w].pc = "raised" =>
                 RollbackOps(w) = IF saga[w].failedStep = 0 THEN <<>>
                                  ELSE ExpectedCompensations(saga[w].created_resources)
            /\ \A i, j \in 1..Len(saga[w].rbLog) :
                 saga[w].rbLog[i].op = saga[w].rbLog[j].op => i = j)

\* a run whose wait reached the deadline has rolled back all it created and
\* has raised the timeout error
C29_Witness ==
    \E w \in Workers :
      /\ saga[w].pc = "raised"
      /\ saga[w].error = Err("TimeoutError", 10)
      /\ Len(saga[w].rbLog) = 5
      /\ wt = IdleWaiter

=============================================================================
